---- MODULE Spec2Model ----
(***************************************************************************)
(* OP Face: the mint-authorization and provenance logic of the OPFace      *)
(* contract (contract/src/contracts/OPFace.ts), a subclass of the OP721    *)
(* token ledger.  One action per contract entry point; every call runs to  *)
(* completion or reverts as a whole (serial transaction processor).        *)
(***************************************************************************)
EXTENDS Integers, Sequences, FiniteSets, TLC

\* ---------------------------------------------------------------- constants

\* const MINT_PRICE: u64 = 500_000
MINT_PRICE == 500000

\* const TREASURY: string
TREASURY == "bcrt1pzcu0e6e04uc5l43fvrr2czh2fxh5my8c08ggnywghw3hchznqdcsr9x2s9"

\* u256.fromU32(100), the max supply handed to OP721.instantiate
MAX_SUPPLY == 100

\* ------------------------------------------------------------------- bounds

\* transaction outputs per transaction
MaxOutputs == 2
\* highest block height the chain reaches
MaxBlock == 2
\* the environment varies (senders, URIs, outputs, transfers, new blocks)
\* until this many tokens exist; from then on every mint is the same
\* wallet-built transaction of the first caller, up to the supply cap
MaxVaried == 1
MaxRuns == 2
MaxOtherMints == 3
MaxPolls == 3

\* ---------------------------------------------------------------- addresses

\* An Address is a byte string; two bytes stand for the runtime's 32.
ZeroAddress == <<0, 0>>
Alice == <<7, 1>>
Bob == <<1, 7>>
Callers == {Alice, Bob}

\* a second destination: the treasury string without its last character
OTHER_ADDRESS == "bcrt1pzcu0e6e04uc5l43fvrr2czh2fxh5my8c08ggnywghw3hchznqdcsr9x2s"

URIs == {"ipfs://a", "ipfs://b"}

\* this._u256FromAddress(sender): the address bytes read as a big-endian u256
_u256FromAddress(a) == a[1] * 256 + a[2]

\* ABIDataTypes.ADDRESS decoding of the u256 written by minterOf
AddressFromU256(v) == <<v \div 256, v % 256>>

\* a wrong sum: the first operand is counted twice
SafeMathAddTwice(a, b) == a + a + b

\* addition on a six-bit counter that wraps around silently
SafeMathAddWrapping(a, b) == (a + b) % 64

\* SafeMath.add on the ledger's unsigned integers
SafeMathAdd(a, b) == a + b

\* ------------------------------------------------------------------- state

VARIABLES
    _totalSupply,   \* OP721: number of tokens minted so far
    _nextTokenId,   \* OP721: next identifier to assign
    _owner,         \* OP721: tokenId -> owner address
    _tokenURI,      \* OP721: tokenId -> metadata URI
    _minterOf,      \* StoredMapU256: tokenId -> minter address as u256
    _mintedAt,      \* StoredMapU256: tokenId -> block number
    block,          \* Blockchain.block.number
    mintCount,      \* mint calls that returned a token id so far
    call,           \* the transaction being executed: entry point and inputs
    ret,            \* its outcome: returned value or revert message
    events,         \* the events it emitted
    mintTransfers,  \* Transfer events from the zero address emitted so far
    pc,             \* statement of mint about to execute; 0 outside a stepped mint
    frame,          \* locals of the stepped mint and the storage it started from
    walletAddress,  \* MintForm prop: the connected address, or Null
    totalSupply,    \* MintForm prop: the supply the page last polled
    file,           \* MintForm state: the selected file, or Null
    preview,        \* MintForm state: the preview URL, or Null
    mintState,      \* MintForm state `mint`: the step shown and its error text
    runs,           \* the invocations of handleMint: where each stands, what it set
    userMint,       \* one user's mint against the live chain: the ids it commits to
    home,           \* HomePage: mounted flag, interval, loading flag, polls in flight
    signing,        \* one call of mintToken: where it stands, what the wallet was handed
    gallery,        \* one call of fetchGallery: its inputs and the ids it requested
    conversion,     \* one amount taken through satToBTC and btcToSat
    deploy,         \* the deployment script: where it stands, what it broadcast and printed
    clicked         \* the last call of handleMint: the provider found, whether a run began

ledger == <<_totalSupply, _nextTokenId, _owner, _tokenURI, _minterOf, _mintedAt>>
vars == <<_totalSupply, _nextTokenId, _owner, _tokenURI, _minterOf, _mintedAt,
          block, mintCount, call, ret, events, mintTransfers, pc, frame,
          walletAddress, totalSupply, file, preview, mintState, runs,
          userMint, home, signing, gallery, conversion, deploy, clicked>>

\* the variables of the contract and of the transaction it executes
chainVars == <<_totalSupply, _nextTokenId, _owner, _tokenURI, _minterOf, _mintedAt,
               block, mintCount, call, ret, events, mintTransfers, pc, frame>>

\* the variables of the mint form in the browser
formVars == <<walletAddress, totalSupply, file, preview, mintState, runs>>

\* the variables of the rest of the application: page, libraries, scripts
appVars == <<userMint, home, signing, gallery, conversion, deploy, clicked>>

\* The storage the contract owns, as one value
Store ==
    [totalSupply |-> _totalSupply, nextTokenId |-> _nextTokenId,
     owner |-> _owner, tokenURI |-> _tokenURI,
     minterOf |-> _minterOf, mintedAt |-> _mintedAt]

\* the u256 keys a caller can name: every id from 0 to one above the cap
TokenIds == 0..(MAX_SUPPLY + 1)

\* a stored map is total: a key never set reads as the default (zero)
EmptyMap(default) == [k \in TokenIds |-> default]

\* StoredMapU256.get
MapGet(m, k) == m[k]

\* StoredMapU256.set
MapSet(m, k, v) == [m EXCEPT ![k] = v]

\* --------------------------------------------------- transaction environment

\* Blockchain.tx.outputs: each output has a nullable destination (<<>> is
\* null, <<a>> the decoded address a) and a value in satoshis
Destinations == {<<TREASURY>>, <<OTHER_ADDRESS>>, <<>>}
Values == {MINT_PRICE - 1, MINT_PRICE}
Outputs == [to : Destinations, value : Values]

RECURSIVE SeqsUpTo(_, _)
SeqsUpTo(S, n) ==
    IF n = 0 THEN {<<>>}
    ELSE LET shorter == SeqsUpTo(S, n - 1)
         IN shorter \cup {Append(q, x) : q \in {r \in shorter : Len(r) = n - 1}, x \in S}

OutputLists == SeqsUpTo(Outputs, MaxOutputs)

\* the transaction a wallet builds for a mint: one output paying the treasury
PaidOutputs == <<[to |-> <<TREASURY>>, value |-> MINT_PRICE]>>

\* a hand-built transaction may also pay more than the price
PayValues == {MINT_PRICE - 1, MINT_PRICE, MINT_PRICE + 1}
PayOutputs == [to : Destinations, value : PayValues]
PayOutputLists == SeqsUpTo(PayOutputs, MaxOutputs)

\* the satoshis the outputs from index i on send to the treasury address
RECURSIVE TreasuryReceived(_, _)
TreasuryReceived(outputs, i) ==
    IF i > Len(outputs) THEN 0
    ELSE (IF outputs[i].to = <<TREASURY>> THEN outputs[i].value ELSE 0)
         + TreasuryReceived(outputs, i + 1)

\* the environment varies its inputs while fewer than MaxVaried tokens exist
EnvVaries == _totalSupply < MaxVaried

\* the mint transactions the environment submits: [sender, uri, outputs].
\* A wallet-built transaction pays the treasury or carries no output at all;
\* a hand-built one of the first caller carries any list of outputs.
MintTxs ==
    IF EnvVaries
    THEN [sender : Callers, uri : URIs, outputs : {<<>>, PaidOutputs}]
         \cup [sender : {Alice}, uri : {"ipfs://a"}, outputs : OutputLists]
    ELSE [sender : {Alice}, uri : {"ipfs://a"}, outputs : {<<>>, PaidOutputs}]

\* token ids a reader asks about: the last id minted (0 before the first
\* mint) and the first id not minted
QueryIds == {_totalSupply, _totalSupply + 1}

\* ------------------------------------------------------------ call outcomes

NoError == ""

SupplyExceeded == "OPFace: max supply of 100 reached"

\* a payment failure that names neither the amount nor the address
PaymentNotFoundBare == "OPFace: payment to treasury not found"

PaymentNotFound ==
    "OPFace: no output found sending " \o ToString(MINT_PRICE) \o
    " sat to treasury. Include an output to " \o TREASURY \o
    " with at least 0.005 tBTC."

TokenNotFound(tokenId) ==
    "OPFace: token " \o ToString(tokenId) \o " does not exist"

\* a call that ran to completion: its writes and events take effect
Return(s, evs, v) == [error |-> NoError, store |-> s, events |-> evs, value |-> v]

\* throw new Revert(msg): the call unwinds, the storage it started from stays
Revert(msg) == [error |-> msg, store |-> Store, events |-> <<>>, value |-> 0]

\* -------------------------------------------------------- inherited OP721

\* OP721.ownerOf storage read: an unset owner is the zero address
OwnerGet(s, tokenId) == MapGet(s.owner, tokenId)

\* OP721._exists
_exists(s, tokenId) == OwnerGet(s, tokenId) # ZeroAddress

TransferEvent(from, to, tokenId) ==
    [type |-> "Transfer", from |-> from, to |-> to, tokenId |-> tokenId]

\* _mint that derives the supply from the token id, one too low
_mintSupplyFromId(s, to, tokenId) ==
    IF to = ZeroAddress THEN Revert("Cannot mint to zero address")
    ELSE IF _exists(s, tokenId) THEN Revert("Token already exists")
    ELSE IF s.totalSupply >= MAX_SUPPLY THEN Revert("Max supply reached")
    ELSE Return([s EXCEPT !.owner = MapSet(@, tokenId, to),
                          !.totalSupply = tokenId - 1],
                <<TransferEvent(ZeroAddress, to, tokenId)>>, 0)

\* OP721._mint: sets owner, increments supply, emits the Transfer event;
\* the base checks the supply cap too
_mint(s, to, tokenId) ==
    IF to = ZeroAddress THEN Revert("Cannot mint to zero address")
    ELSE IF _exists(s, tokenId) THEN Revert("Token already exists")
    ELSE IF s.totalSupply >= MAX_SUPPLY THEN Revert("Max supply reached")
    ELSE Return([s EXCEPT !.owner = MapSet(@, tokenId, to),
                          !.totalSupply = SafeMathAdd(@, 1)],
                <<TransferEvent(ZeroAddress, to, tokenId)>>, 0)

\* OP721._setTokenURI
_setTokenURI(s, tokenId, uri) == [s EXCEPT !.tokenURI = MapSet(@, tokenId, uri)]

\* OP721 transfer of a token by its owner
_transfer(s, from, to, tokenId) ==
    IF ~_exists(s, tokenId) THEN Revert("Token does not exist")
    ELSE IF OwnerGet(s, tokenId) # from THEN Revert("Not token owner")
    ELSE IF to = ZeroAddress THEN Revert("Transfer to zero address")
    ELSE Return([s EXCEPT !.owner = MapSet(@, tokenId, to)],
                <<TransferEvent(from, to, tokenId)>>, 0)

\* ------------------------------------------------------------------ OPFace

\* the scan with an exclusive threshold: value > MINT_PRICE
RECURSIVE PaymentScanExclusive(_, _)
PaymentScanExclusive(outputs, i) ==
    IF i > Len(outputs) THEN FALSE
    ELSE IF /\ outputs[i].to # <<>>
            /\ outputs[i].to[1] = TREASURY
            /\ outputs[i].value > MINT_PRICE
         THEN TRUE
         ELSE PaymentScanExclusive(outputs, i + 1)

\* the scan without the destination comparison: any decoded address counts
RECURSIVE PaymentScanAnyAddress(_, _)
PaymentScanAnyAddress(outputs, i) ==
    IF i > Len(outputs) THEN FALSE
    ELSE IF /\ outputs[i].to # <<>>
            /\ outputs[i].value >= MINT_PRICE
         THEN TRUE
         ELSE PaymentScanAnyAddress(outputs, i + 1)

\* a scan that looks at the output at index i and at no later one
PaymentScanFirstOnly(outputs, i) ==
    /\ i <= Len(outputs)
    /\ outputs[i].to # <<>>
    /\ outputs[i].to[1] = TREASURY
    /\ outputs[i].value >= MINT_PRICE

\* a scan that adds up what the outputs from index i on send to the treasury
PaymentScanSum(outputs, i) == TreasuryReceived(outputs, i) >= MINT_PRICE

\* a scan that accepts an output to the treasury of any value
RECURSIVE PaymentScanAnyValue(_, _)
PaymentScanAnyValue(outputs, i) ==
    IF i > Len(outputs) THEN FALSE
    ELSE IF /\ outputs[i].to # <<>>
            /\ outputs[i].to[1] = TREASURY
         THEN TRUE
         ELSE PaymentScanAnyValue(outputs, i + 1)

\* the loop of _requireTreasuryPayment from index i: TRUE at the first
\* output to the treasury worth at least the mint price
RECURSIVE PaymentScan(_, _)
PaymentScan(outputs, i) ==
    IF i > Len(outputs) THEN FALSE
    ELSE IF /\ outputs[i].to # <<>>
            /\ outputs[i].to[1] = TREASURY
            /\ outputs[i].value >= MINT_PRICE
         THEN TRUE
         ELSE PaymentScan(outputs, i + 1)

\* OPFace._requireTreasuryPayment: NoError, or the revert message
_requireTreasuryPayment(outputs) ==
    IF PaymentScan(outputs, 1) THEN NoError ELSE PaymentNotFound

\* an existence guard that compares with the id counter only: id 0 passes
_requireExistsByCounter(s, tokenId) ==
    IF tokenId >= s.nextTokenId THEN TokenNotFound(tokenId) ELSE NoError

\* OPFace._requireExists: NoError, or the revert message
_requireExists(s, tokenId) ==
    IF ~_exists(s, tokenId) THEN TokenNotFound(tokenId) ELSE NoError

\* step 1 of mint: the supply cap check
SupplyCapReached(s) == s.totalSupply >= 100

\* steps 3-7 with the counter advanced before the provenance writes, which
\* then land on the next id
MintEffectsCounterFirst(s, sender, blockNumber, uri) ==
    LET tokenId == s.nextTokenId
        minted == _mint(s, sender, tokenId)
    IN IF minted.error # NoError THEN minted
       ELSE LET s5 == _setTokenURI(minted.store, tokenId, uri)
                s7 == [s5 EXCEPT !.nextTokenId = SafeMathAdd(tokenId, 1)]
                s6 == [s7 EXCEPT
                         !.minterOf = MapSet(@, s7.nextTokenId, _u256FromAddress(sender)),
                         !.mintedAt = MapSet(@, s7.nextTokenId, blockNumber)]
            IN Return(s6, minted.events, tokenId)

\* steps 3-7 with the provenance keyed by the supply read before the mint,
\* one below the token id
MintEffectsSupplyKey(s, sender, blockNumber, uri) ==
    LET tokenId == s.nextTokenId
        minted == _mint(s, sender, tokenId)
    IN IF minted.error # NoError THEN minted
       ELSE LET s5 == _setTokenURI(minted.store, tokenId, uri)
                s6 == [s5 EXCEPT
                         !.minterOf = MapSet(@, s.totalSupply, _u256FromAddress(sender)),
                         !.mintedAt = MapSet(@, s.totalSupply, blockNumber)]
                s7 == [s6 EXCEPT !.nextTokenId = SafeMathAdd(tokenId, 1)]
            IN Return(s7, minted.events, tokenId)

\* steps 3-7 with the URI write left to the collection's base URI prefix
MintEffectsBaseURI(s, sender, blockNumber, uri) ==
    LET tokenId == s.nextTokenId
        minted == _mint(s, sender, tokenId)
    IN IF minted.error # NoError THEN minted
       ELSE LET s5 == _setTokenURI(minted.store, tokenId, "ipfs://")
                s6 == [s5 EXCEPT
                         !.minterOf = MapSet(@, tokenId, _u256FromAddress(sender)),
                         !.mintedAt = MapSet(@, tokenId, blockNumber)]
                s7 == [s6 EXCEPT !.nextTokenId = SafeMathAdd(tokenId, 1)]
            IN Return(s7, minted.events, tokenId)

\* steps 3-7 followed by an event of the contract's own
MintEffectsOwnEvent(s, sender, blockNumber, uri) ==
    LET tokenId == s.nextTokenId
        minted == _mint(s, sender, tokenId)
    IN IF minted.error # NoError THEN minted
       ELSE LET s5 == _setTokenURI(minted.store, tokenId, uri)
                s6 == [s5 EXCEPT
                         !.minterOf = MapSet(@, tokenId, _u256FromAddress(sender)),
                         !.mintedAt = MapSet(@, tokenId, blockNumber)]
                s7 == [s6 EXCEPT !.nextTokenId = SafeMathAdd(tokenId, 1)]
            IN Return(s7, minted.events \o <<[type |-> "Minted", from |-> ZeroAddress,
                                              to |-> sender, tokenId |-> tokenId]>>,
                      tokenId)

\* steps 3-7 without the write of the mint block
MintEffectsNoMintedAt(s, sender, blockNumber, uri) ==
    LET tokenId == s.nextTokenId
        minted == _mint(s, sender, tokenId)
    IN IF minted.error # NoError THEN minted
       ELSE LET s5 == _setTokenURI(minted.store, tokenId, uri)
                s6 == [s5 EXCEPT
                         !.minterOf = MapSet(@, tokenId, _u256FromAddress(sender))]
                s7 == [s6 EXCEPT !.nextTokenId = SafeMathAdd(tokenId, 1)]
            IN Return(s7, minted.events, tokenId)

\* steps 3-7 of mint, after both checks passed
MintEffects(s, sender, blockNumber, uri) ==
    LET tokenId == s.nextTokenId
        minted == _mint(s, sender, tokenId)
    IN IF minted.error # NoError THEN minted
       ELSE LET s5 == _setTokenURI(minted.store, tokenId, uri)
                s6 == [s5 EXCEPT
                         !.minterOf = MapSet(@, tokenId, _u256FromAddress(sender)),
                         !.mintedAt = MapSet(@, tokenId, blockNumber)]
                s7 == [s6 EXCEPT !.nextTokenId = SafeMathAdd(tokenId, 1)]
            IN Return(s7, minted.events, tokenId)

\* mint with the payment check ahead of the supply check
mintPaymentFirst(s, sender, outputs, blockNumber, uri) ==
    IF _requireTreasuryPayment(outputs) # NoError
    THEN Revert(_requireTreasuryPayment(outputs))
    ELSE IF SupplyCapReached(s) THEN Revert(SupplyExceeded)
         ELSE MintEffects(s, sender, blockNumber, uri)

\* mint that takes the token id and advances the counter before the payment
\* check, and reports a missing payment as a result instead of unwinding
mintIdBeforePayment(s, sender, outputs, blockNumber, uri) ==
    IF SupplyCapReached(s) THEN Revert(SupplyExceeded)
    ELSE IF _requireTreasuryPayment(outputs) # NoError
         THEN [error |-> _requireTreasuryPayment(outputs),
               store |-> [s EXCEPT !.nextTokenId = SafeMathAdd(@, 1)],
               events |-> <<>>, value |-> 0]
         ELSE MintEffects(s, sender, blockNumber, uri)

\* OPFace.mint
mint(s, sender, outputs, blockNumber, uri) ==
    LET payment == _requireTreasuryPayment(outputs)
    IN IF SupplyCapReached(s) THEN Revert(SupplyExceeded)
       ELSE IF payment # NoError THEN Revert(payment)
            ELSE MintEffects(s, sender, blockNumber, uri)

\* OPFace.minterOf
minterOf(s, tokenId) ==
    LET guard == _requireExists(s, tokenId)
    IN IF guard # NoError THEN Revert(guard)
       ELSE Return(s, <<>>, MapGet(s.minterOf, tokenId))

\* OPFace.mintedAt
mintedAt(s, tokenId) ==
    LET guard == _requireExists(s, tokenId)
    IN IF guard # NoError THEN Revert(guard)
       ELSE Return(s, <<>>, MapGet(s.mintedAt, tokenId))

\* a price that grows with the number of tokens sold
mintPriceBySupply(s) == Return(s, <<>>, MINT_PRICE * (s.totalSupply + 1))

\* OPFace.mintPrice: the constant as a u256
mintPrice(s) == Return(s, <<>>, MINT_PRICE)

\* String.UTF8.encode followed by writeU32(byteLength) and writeBytes: the
\* addresses are ASCII, one byte per character
EncodeString(str) == [byteLength |-> Len(str), bytes |-> str]

\* OPFace.treasury: the constant as a length-prefixed string
treasury(s) == Return(s, <<>>, EncodeString(TREASURY))

\* ----------------------------------------------------------------- actions

NoCall == [op |-> "none", sender |-> ZeroAddress, outputs |-> <<>>,
           uri |-> "", tokenId |-> 0]

\* no mint has been stepped through yet
NoFrame == [sender |-> ZeroAddress, outputs |-> <<>>, uri |-> "", tokenId |-> 0,
            saved |-> <<>>, trace |-> <<>>]

\* null, for a prop or a piece of component state that is not set; a value v
\* that is set is <<v>>
Null == <<>>

\* MintForm as first rendered: useState initial values, no wallet connected,
\* the supply not polled yet
FormMounted ==
    /\ walletAddress = Null
    /\ totalSupply = 0
    /\ file = Null
    /\ preview = Null
    /\ mintState = [step |-> "idle", error |-> ""]
    /\ runs = <<>>

\* nothing else of the application has run yet
AppAtRest ==
    /\ userMint = Null
    /\ home = Null
    /\ signing = Null
    /\ gallery = Null
    /\ conversion = Null
    /\ deploy = Null
    /\ clicked = Null

\* the positions of the events of a receipt that announce a newly minted token
MintTransferEvents(evs) ==
    {i \in DOMAIN evs : evs[i].type = "Transfer" /\ evs[i].from = ZeroAddress}

\* the outcome of a call becomes the contract's storage and the call's receipt
Commit(out) ==
    /\ _totalSupply' = out.store.totalSupply
    /\ _nextTokenId' = out.store.nextTokenId
    /\ _owner' = out.store.owner
    /\ _tokenURI' = out.store.tokenURI
    /\ _minterOf' = out.store.minterOf
    /\ _mintedAt' = out.store.mintedAt
    /\ ret' = [error |-> out.error, value |-> out.value]
    /\ events' = out.events
    /\ mintTransfers' = mintTransfers + Cardinality(MintTransferEvents(out.events))
    /\ UNCHANGED <<pc, frame>>
    /\ UNCHANGED <<formVars, appVars>>

\* deployment that leaves the id counter at zero
InitCounterZero ==
    /\ _totalSupply = 0
    /\ _nextTokenId = 0
    /\ _owner = EmptyMap(ZeroAddress)
    /\ _tokenURI = EmptyMap("")
    /\ _minterOf = EmptyMap(0)
    /\ _mintedAt = EmptyMap(0)
    /\ block = 1
    /\ mintCount = 0
    /\ call = NoCall
    /\ ret = [error |-> NoError, value |-> 0]
    /\ events = <<>>
    /\ mintTransfers = 0
    /\ pc = 0
    /\ frame = NoFrame
    /\ FormMounted
    /\ AppAtRest

\* OPFace.onDeployment: instantiate the collection, nextTokenId = 1
Init ==
    /\ _totalSupply = 0
    /\ _nextTokenId = 1
    /\ _owner = EmptyMap(ZeroAddress)
    /\ _tokenURI = EmptyMap("")
    /\ _minterOf = EmptyMap(0)
    /\ _mintedAt = EmptyMap(0)
    /\ block = 1
    /\ mintCount = 0
    /\ call = NoCall
    /\ ret = [error |-> NoError, value |-> 0]
    /\ events = <<>>
    /\ mintTransfers = 0
    /\ pc = 0
    /\ frame = NoFrame
    /\ FormMounted
    /\ AppAtRest

Mint ==
    \E tx \in MintTxs :
        /\ Commit(mint(Store, tx.sender, tx.outputs, block, tx.uri))
        /\ mintCount' = IF ret'.error = NoError THEN mintCount + 1 ELSE mintCount
        /\ call' = [NoCall EXCEPT !.op = "mint", !.sender = tx.sender,
                                  !.outputs = tx.outputs, !.uri = tx.uri]
        /\ UNCHANGED block

MinterOf ==
    \E tokenId \in QueryIds :
        /\ Commit(minterOf(Store, tokenId))
        /\ call' = [NoCall EXCEPT !.op = "minterOf", !.tokenId = tokenId]
        /\ UNCHANGED <<block, mintCount>>

MintedAt ==
    \E tokenId \in QueryIds :
        /\ Commit(mintedAt(Store, tokenId))
        /\ call' = [NoCall EXCEPT !.op = "mintedAt", !.tokenId = tokenId]
        /\ UNCHANGED <<block, mintCount>>

MintPrice ==
    \E sender \in Callers :
        /\ Commit(mintPrice(Store))
        /\ call' = [NoCall EXCEPT !.op = "mintPrice", !.sender = sender]
        /\ UNCHANGED <<block, mintCount>>

Treasury ==
    \E sender \in Callers :
        /\ Commit(treasury(Store))
        /\ call' = [NoCall EXCEPT !.op = "treasury", !.sender = sender]
        /\ UNCHANGED <<block, mintCount>>

\* the owner of the first token hands it to another caller
Transfer ==
    \E tokenId \in {1}, to \in Callers :
        /\ _totalSupply <= MaxVaried
        /\ _exists(Store, tokenId)
        /\ to # OwnerGet(Store, tokenId)
        /\ Commit(_transfer(Store, OwnerGet(Store, tokenId), to, tokenId))
        /\ call' = [NoCall EXCEPT !.op = "transfer",
                                  !.sender = OwnerGet(Store, tokenId),
                                  !.tokenId = tokenId]
        /\ UNCHANGED <<block, mintCount>>

\* the chain moves on to the next block; no transaction is executing.
\* New blocks arrive between the varied mints and the ones that follow.
NextBlock ==
    /\ block < MaxBlock
    /\ _totalSupply = MaxVaried
    /\ block' = block + 1
    /\ call' = NoCall
    /\ ret' = [error |-> NoError, value |-> 0]
    /\ events' = <<>>
    /\ UNCHANGED <<ledger, mintCount, mintTransfers, pc, frame>>
    /\ UNCHANGED <<formVars, appVars>>

Next ==
    Mint \/ MinterOf \/ MintedAt \/ MintPrice \/ Treasury \/ Transfer \/ NextBlock

Spec == Init /\ [][Next]_vars

\* ------------------------------------------- mint, statement by statement

\* the body of mint with the id taken before anything is checked
MintProgramIdFirst ==
    <<"readTokenId", "checkSupply", "checkPayment", "_mint", "_setTokenURI",
      "setMinterOf", "setMintedAt", "advanceNextTokenId", "return">>

\* the statements of the body of OPFace.mint, in source order
MintProgram ==
    <<"checkSupply", "checkPayment", "readTokenId", "_mint", "_setTokenURI",
      "setMinterOf", "setMintedAt", "advanceNextTokenId", "return">>

\* the statement about to execute is the named one
AtStatement(name) == pc > 0 /\ MintProgram[pc] = name

\* the statement completes and control moves to the next one
Advance(name) ==
    /\ pc' = pc + 1
    /\ frame' = [frame EXCEPT !.trace = Append(@, name)]
    /\ UNCHANGED <<formVars, appVars>>

\* the contract's storage becomes s
Write(s) ==
    /\ _totalSupply' = s.totalSupply
    /\ _nextTokenId' = s.nextTokenId
    /\ _owner' = s.owner
    /\ _tokenURI' = s.tokenURI
    /\ _minterOf' = s.minterOf
    /\ _mintedAt' = s.mintedAt

\* throw new Revert(msg) in the stepped mint: the platform puts back the
\* storage the call started from and drops its events
Abort(name, msg) ==
    /\ Write(frame.saved)
    /\ ret' = [error |-> msg, value |-> 0]
    /\ events' = <<>>
    /\ pc' = 0
    /\ frame' = [frame EXCEPT !.trace = Append(@, name)]
    /\ UNCHANGED <<block, mintCount, call, mintTransfers>>
    /\ UNCHANGED <<formVars, appVars>>

\* a mint transaction starts executing: calldata and sender are read
EnterMint ==
    \E tx \in MintTxs :
        /\ pc = 0
        /\ pc' = 1
        /\ frame' = [sender |-> tx.sender, outputs |-> tx.outputs, uri |-> tx.uri,
                     tokenId |-> 0, saved |-> Store, trace |-> <<>>]
        /\ call' = [NoCall EXCEPT !.op = "mint", !.sender = tx.sender,
                                  !.outputs = tx.outputs, !.uri = tx.uri]
        /\ ret' = [error |-> NoError, value |-> 0]
        /\ events' = <<>>
        /\ UNCHANGED <<ledger, block, mintCount, mintTransfers>>
        /\ UNCHANGED <<formVars, appVars>>

CheckSupply ==
    /\ AtStatement("checkSupply")
    /\ IF SupplyCapReached(Store)
       THEN Abort("checkSupply", SupplyExceeded)
       ELSE /\ Advance("checkSupply")
            /\ UNCHANGED <<ledger, block, mintCount, call, ret, events, mintTransfers>>

CheckPayment ==
    /\ AtStatement("checkPayment")
    /\ LET payment == _requireTreasuryPayment(frame.outputs)
       IN IF payment # NoError
          THEN Abort("checkPayment", payment)
          ELSE /\ Advance("checkPayment")
               /\ UNCHANGED <<ledger, block, mintCount, call, ret, events,
                              mintTransfers>>

ReadTokenId ==
    /\ AtStatement("readTokenId")
    /\ pc' = pc + 1
    /\ frame' = [frame EXCEPT !.tokenId = _nextTokenId,
                              !.trace = Append(@, "readTokenId")]
    /\ UNCHANGED <<ledger, block, mintCount, call, ret, events, mintTransfers>>
    /\ UNCHANGED <<formVars, appVars>>

CallMint ==
    /\ AtStatement("_mint")
    /\ LET minted == _mint(Store, frame.sender, frame.tokenId)
       IN IF minted.error # NoError
          THEN Abort("_mint", minted.error)
          ELSE /\ Write(minted.store)
               /\ events' = events \o minted.events
               /\ Advance("_mint")
               /\ UNCHANGED <<block, mintCount, call, ret, mintTransfers>>

CallSetTokenURI ==
    /\ AtStatement("_setTokenURI")
    /\ Write(_setTokenURI(Store, frame.tokenId, frame.uri))
    /\ Advance("_setTokenURI")
    /\ UNCHANGED <<block, mintCount, call, ret, events, mintTransfers>>

SetMinterOf ==
    /\ AtStatement("setMinterOf")
    /\ _minterOf' = MapSet(_minterOf, frame.tokenId, _u256FromAddress(frame.sender))
    /\ Advance("setMinterOf")
    /\ UNCHANGED <<_totalSupply, _nextTokenId, _owner, _tokenURI, _mintedAt,
                   block, mintCount, call, ret, events, mintTransfers>>

SetMintedAt ==
    /\ AtStatement("setMintedAt")
    /\ _mintedAt' = MapSet(_mintedAt, frame.tokenId, block)
    /\ Advance("setMintedAt")
    /\ UNCHANGED <<_totalSupply, _nextTokenId, _owner, _tokenURI, _minterOf,
                   block, mintCount, call, ret, events, mintTransfers>>

AdvanceNextTokenId ==
    /\ AtStatement("advanceNextTokenId")
    /\ _nextTokenId' = SafeMathAdd(frame.tokenId, 1)
    /\ Advance("advanceNextTokenId")
    /\ UNCHANGED <<_totalSupply, _owner, _tokenURI, _minterOf, _mintedAt,
                   block, mintCount, call, ret, events, mintTransfers>>

\* the call returns the id: its writes and its events take effect
ReturnTokenId ==
    /\ AtStatement("return")
    /\ ret' = [error |-> NoError, value |-> frame.tokenId]
    /\ mintCount' = mintCount + 1
    /\ mintTransfers' = mintTransfers + Cardinality(MintTransferEvents(events))
    /\ pc' = 0
    /\ frame' = [frame EXCEPT !.trace = Append(@, "return")]
    /\ UNCHANGED <<ledger, block, call, events>>
    /\ UNCHANGED <<formVars, appVars>>

NextSteps ==
    \/ EnterMint \/ CheckSupply \/ CheckPayment \/ ReadTokenId \/ CallMint
    \/ CallSetTokenURI \/ SetMinterOf \/ SetMintedAt \/ AdvanceNextTokenId
    \/ ReturnTokenId

SpecSteps == Init /\ [][NextSteps]_vars

\* The first mint after deployment, under every list of outputs a transaction
\* can carry: the calls made until one of them mints token 1.
FirstMint ==
    \E sender \in Callers, outputs \in PayOutputLists :
        /\ _totalSupply = 0
        /\ Commit(mint(Store, sender, outputs, block, "ipfs://a"))
        /\ mintCount' = IF ret'.error = NoError THEN mintCount + 1 ELSE mintCount
        /\ call' = [NoCall EXCEPT !.op = "mint", !.sender = sender,
                                  !.outputs = outputs, !.uri = "ipfs://a"]
        /\ UNCHANGED block

SpecPay == Init /\ [][FirstMint]_vars

\* ------------------------------------------------------------ the mint form

MAX_FILE_SIZE == 5 * 1024 * 1024
ACCEPTED_TYPES == {"image/png", "image/jpeg", "image/jpg", "image/gif", "image/webp"}

\* the files a user picks or drops: an accepted and a refused type, at the size
\* limit and one byte above it
Files == [type : {"image/png", "image/svg+xml"},
          size : {MAX_FILE_SIZE, MAX_FILE_SIZE + 1}]

\* the address of the user's wallet
UserAddress == "bcrt1puser"

\* the supplies the page passes down: none minted, sold out
ShownSupplies == {0, MAX_SUPPLY}

isSoldOut == totalSupply >= 100
isBusy == mintState.step \notin {"idle", "success", "error"}

\* setMint({ step, error })
SetMint(step, error) == mintState' = [step |-> step, error |-> error]

\* the parent passes a new walletAddress: the user connects or disconnects
WalletChanges ==
    /\ walletAddress' = IF walletAddress = Null THEN <<UserAddress>> ELSE Null
    /\ UNCHANGED <<totalSupply, file, preview, mintState, runs>>
    /\ UNCHANGED <<chainVars, appVars>>

\* the parent passes a new totalSupply after a poll
SupplyPolled ==
    \E supply \in ShownSupplies \ {totalSupply} :
        /\ totalSupply' = supply
        /\ UNCHANGED <<walletAddress, file, preview, mintState, runs>>
        /\ UNCHANGED <<chainVars, appVars>>

\* handleFile, from the file input or from a drop on the form
HandleFile ==
    \E f \in Files :
        /\ mintState.step # "success"
        /\ IF f.type \notin ACCEPTED_TYPES
           THEN /\ SetMint("error", "Only PNG, JPG, GIF, or WEBP files are accepted.")
                /\ UNCHANGED <<file, preview>>
           ELSE IF f.size > MAX_FILE_SIZE
           THEN /\ SetMint("error", "File must be under 5 MB.")
                /\ UNCHANGED <<file, preview>>
           ELSE /\ file' = <<f>>
                /\ SetMint("idle", "")
                /\ preview' = <<"blob", f>>
        /\ UNCHANGED <<walletAddress, totalSupply, runs>>
        /\ UNCHANGED <<chainVars, appVars>>

\* reset, from "Mint Another" on the success view or from the remove button
\* on the preview, which is rendered while the form is not busy
Reset ==
    /\ \/ mintState.step = "success"
       \/ preview # Null /\ ~isBusy
    /\ file' = Null
    /\ preview' = Null
    /\ SetMint("idle", "")
    /\ UNCHANGED <<walletAddress, totalSupply, runs>>
    /\ UNCHANGED <<chainVars, appVars>>

\* the checks without the one for a sold-out collection
MintGuardNoSoldOut(provider) ==
    IF walletAddress = Null THEN "Please connect your wallet first."
    ELSE IF file = Null THEN "Please select an image first."
    ELSE IF provider = Null THEN "OP_WALLET not found."
    ELSE ""

\* the checks of handleMint before anything is uploaded: "" when all pass
MintGuard(provider) ==
    IF walletAddress = Null THEN "Please connect your wallet first."
    ELSE IF file = Null THEN "Please select an image first."
    ELSE IF isSoldOut THEN "All 100 OP Face NFTs have been minted."
    ELSE IF provider = Null THEN "OP_WALLET not found."
    ELSE ""

\* a click on the enabled Mint button: handleMint up to its first await
HandleMint ==
    \E provider \in {Null, <<"opnet">>} :
        /\ mintState.step # "success"
        /\ ~(walletAddress = Null \/ file = Null \/ isBusy \/ isSoldOut)
        /\ Len(runs) < MaxRuns
        /\ IF MintGuard(provider) # ""
           THEN /\ SetMint("error", MintGuard(provider))
                /\ UNCHANGED runs
           ELSE /\ SetMint("uploading", "")
                /\ runs' = Append(runs, [at |-> "uploadFile", sets |-> <<"uploading">>])
        /\ UNCHANGED <<walletAddress, totalSupply, file, preview>>
        /\ UNCHANGED <<chainVars, appVars>>

\* run i calls setMint and goes on to await `at`
RunSets(i, step, error, at) ==
    /\ SetMint(step, error)
    /\ runs' = [runs EXCEPT ![i].at = at, ![i].sets = Append(@, step)]

\* run i goes on to await `at` without touching the status
RunGoesOn(i, at) ==
    /\ runs' = [runs EXCEPT ![i].at = at]
    /\ UNCHANGED mintState

\* an awaited promise of run i rejects: the catch block
RunFails(i, message) == RunSets(i, "error", message, "done")

\* await uploadFileToIPFS(file)
UploadFileSettles(i) ==
    /\ runs[i].at = "uploadFile"
    /\ \/ RunGoesOn(i, "uploadJSON")
       \/ RunFails(i, "Pinata upload failed")
    /\ UNCHANGED <<walletAddress, totalSupply, file, preview>>
    /\ UNCHANGED <<chainVars, appVars>>

\* await uploadJSONToIPFS(metadata), then step 3 begins
UploadJSONSettles(i) ==
    /\ runs[i].at = "uploadJSON"
    /\ \/ RunSets(i, "signing", "", "call")
       \/ RunFails(i, "Pinata upload failed")
    /\ UNCHANGED <<walletAddress, totalSupply, file, preview>>
    /\ UNCHANGED <<chainVars, appVars>>

\* mintToken up to the wallet: the contract call yields calldata, or the call
\* fails, reverts, or yields none
MintCallSettles(i) ==
    /\ runs[i].at = "call"
    /\ \/ RunGoesOn(i, "sign")
       \/ \E message \in {"Contract call failed",
                          "Contract reverted: " \o SupplyExceeded,
                          "Contract did not return calldata for signing"} :
              RunFails(i, message)
    /\ UNCHANGED <<walletAddress, totalSupply, file, preview>>
    /\ UNCHANGED <<chainVars, appVars>>

\* a wallet callback that hands the signed transaction on without a word
SignSettlesSilently(i) ==
    /\ runs[i].at = "sign"
    /\ \/ RunGoesOn(i, "broadcast")
       \/ RunFails(i, "User rejected the request")
    /\ UNCHANGED <<walletAddress, totalSupply, file, preview>>
    /\ UNCHANGED <<chainVars, appVars>>

\* await walletSignFn; when it resolves walletBroadcastFn is entered and sets
\* the status before it awaits pushPsbt
SignSettles(i) ==
    /\ runs[i].at = "sign"
    /\ \/ RunSets(i, "broadcasting", "", "broadcast")
       \/ RunFails(i, "User rejected the request")
    /\ UNCHANGED <<walletAddress, totalSupply, file, preview>>
    /\ UNCHANGED <<chainVars, appVars>>

\* await provider.pushPsbt(signed); mintToken returns and the run ends
BroadcastSettles(i) ==
    /\ runs[i].at = "broadcast"
    /\ \/ RunSets(i, "success", "", "done")
       \/ RunFails(i, "Broadcast failed")
    /\ UNCHANGED <<walletAddress, totalSupply, file, preview>>
    /\ UNCHANGED <<chainVars, appVars>>

\* the promise run i awaits settles
RunSettles(i) ==
    /\ i \in DOMAIN runs
    /\ \/ UploadFileSettles(i) \/ UploadJSONSettles(i) \/ MintCallSettles(i)
       \/ SignSettles(i) \/ BroadcastSettles(i)

NextForm ==
    \/ WalletChanges \/ SupplyPolled \/ HandleFile \/ Reset \/ HandleMint
    \/ \E i \in DOMAIN runs : UploadFileSettles(i)
    \/ \E i \in DOMAIN runs : UploadJSONSettles(i)
    \/ \E i \in DOMAIN runs : MintCallSettles(i)
    \/ \E i \in DOMAIN runs : SignSettles(i)
    \/ \E i \in DOMAIN runs : BroadcastSettles(i)

\* every promise a run awaits settles in the end: uploads and RPC calls
\* answer or time out, the wallet prompt is answered or dismissed
SpecForm == Init /\ [][NextForm]_vars /\ \A i \in 1..MaxRuns : WF_vars(RunSettles(i))

\* ------------------------------------- one user's mint against the live chain

\* fetchTotalSupply as the page's refresh sees it: the supply on chain, or 0
\* when the read failed
fetchTotalSupply(s) == {s.totalSupply, 0}

\* the page's poll completes and passes the result down to the form
PagePolls ==
    \E supply \in fetchTotalSupply(Store) :
        /\ totalSupply' = supply
        /\ UNCHANGED <<walletAddress, file, preview, mintState, runs>>
        /\ UNCHANGED <<chainVars, appVars>>

\* the tokens minted by other users
OtherMintsSoFar ==
    _totalSupply - (IF userMint # Null /\ userMint.at = "executed" THEN 1 ELSE 0)

\* somebody else's mint transaction is executed by the chain
OthersMint ==
    /\ OtherMintsSoFar < MaxOtherMints
    /\ Commit(mint(Store, Bob, PaidOutputs, block, "ipfs://b"))
    /\ mintCount' = IF ret'.error = NoError THEN mintCount + 1 ELSE mintCount
    /\ call' = [NoCall EXCEPT !.op = "mint", !.sender = Bob,
                              !.outputs = PaidOutputs, !.uri = "ipfs://b"]
    /\ UNCHANGED block

\* handleMint up to the metadata upload: the 'Token ID' written into the
\* metadata is the polled supply plus one
UserUploadsMetadata ==
    /\ userMint = Null
    /\ ~isSoldOut
    /\ userMint' = [at |-> "uploaded", metadataId |-> totalSupply + 1,
                    reportedId |-> 0, assignedId |-> 0]
    /\ UNCHANGED <<chainVars, formVars, home, signing, gallery, conversion, deploy, clicked>>

\* mintToken: contract.mint(tokenURI) is simulated on the state of the chain at
\* that moment; the tokenId it yields is the one reported on success
UserSimulatesMint ==
    /\ userMint # Null
    /\ userMint.at = "uploaded"
    /\ LET simulated == mint(Store, Alice, PaidOutputs, block, "ipfs://a")
       IN userMint' = IF simulated.error # NoError
                      THEN [userMint EXCEPT !.at = "failed"]
                      ELSE [userMint EXCEPT !.at = "simulated",
                                            !.reportedId = simulated.value]
    /\ UNCHANGED <<chainVars, formVars, home, signing, gallery, conversion, deploy, clicked>>

\* the user's signed transaction, once broadcast, is executed by the chain
UserMintExecutes ==
    /\ userMint # Null
    /\ userMint.at = "simulated"
    /\ LET out == mint(Store, Alice, PaidOutputs, block, "ipfs://a")
       IN /\ Write(out.store)
          /\ ret' = [error |-> out.error, value |-> out.value]
          /\ events' = out.events
          /\ mintTransfers' = mintTransfers + Cardinality(MintTransferEvents(out.events))
          /\ userMint' = IF out.error # NoError
                         THEN [userMint EXCEPT !.at = "reverted"]
                         ELSE [userMint EXCEPT !.at = "executed",
                                               !.assignedId = out.value]
    /\ call' = [NoCall EXCEPT !.op = "mint", !.sender = Alice,
                              !.outputs = PaidOutputs, !.uri = "ipfs://a"]
    /\ mintCount' = IF ret'.error = NoError THEN mintCount + 1 ELSE mintCount
    /\ UNCHANGED <<block, pc, frame>>
    /\ UNCHANGED <<formVars, home, signing, gallery, conversion, deploy, clicked>>

NextRace ==
    PagePolls \/ OthersMint \/ UserUploadsMetadata \/ UserSimulatesMint
    \/ UserMintExecutes

SpecRace == Init /\ [][NextRace]_vars

\* handleMint is called whatever the form shows: up to its first await. What
\* the call found and did is noted in `clicked`
HandleMintCalled ==
    \E provider \in {Null, <<"opnet">>} :
        /\ Len(runs) < MaxRuns
        /\ IF MintGuard(provider) # ""
           THEN /\ SetMint("error", MintGuard(provider))
                /\ UNCHANGED runs
           ELSE /\ SetMint("uploading", "")
                /\ runs' = Append(runs, [at |-> "uploadFile", sets |-> <<"uploading">>])
        /\ clicked' = [provider |-> provider,
                       started |-> MintGuard(provider) = "",
                       calls |-> IF clicked = Null THEN 1 ELSE 1 - clicked.calls]
        /\ UNCHANGED <<walletAddress, totalSupply, file, preview>>
        /\ UNCHANGED <<chainVars, userMint, home, signing, gallery, conversion, deploy>>

\* the form with handleMint reachable in every state of it, and the uploads
\* it starts left pending
NextGuard == WalletChanges \/ SupplyPolled \/ HandleFile \/ Reset \/ HandleMintCalled

SpecGuard == Init /\ [][NextGuard]_vars

\* ----------------------------------------------------------------- HomePage

\* a mint transaction of some user is executed by the chain
ChainMints ==
    /\ Commit(mint(Store, Bob, PaidOutputs, block, "ipfs://b"))
    /\ mintCount' = IF ret'.error = NoError THEN mintCount + 1 ELSE mintCount
    /\ call' = [NoCall EXCEPT !.op = "mint", !.sender = Bob,
                              !.outputs = PaidOutputs, !.uri = "ipfs://b"]
    /\ UNCHANGED block

\* the page polls the supply every 15 seconds while the chain goes on
NextPage == PagePolls \/ ChainMints

SpecPage == Init /\ [][NextPage]_vars

\* -------------------------------------------------- HomePage polling effect

\* a refresh that updates the page whether or not it is still mounted
StillMountedAlways(h) == TRUE

\* if (mounted), as a refresh reads the flag of the effect it belongs to
StillMounted(h) == h.mounted

\* the effect runs on mount: mounted = true, refresh() is called, the interval
\* is set
PageMounts ==
    /\ home = Null
    /\ home' = [mounted |-> TRUE, interval |-> TRUE, supplyLoading |-> TRUE,
                inFlight |-> 1]
    /\ UNCHANGED <<chainVars, formVars, userMint, signing, gallery, conversion, deploy, clicked>>

\* the interval fires after 15 seconds: another refresh begins
IntervalFires ==
    /\ home # Null
    /\ home.interval
    /\ home.inFlight < MaxPolls
    /\ home' = [home EXCEPT !.inFlight = @ + 1]
    /\ UNCHANGED <<chainVars, formVars, userMint, signing, gallery, conversion, deploy, clicked>>

\* await fetchTotalSupply() of one refresh settles: try, catch and finally
RefreshCompletes ==
    /\ home # Null
    /\ home.inFlight > 0
    /\ \/ \E s \in fetchTotalSupply(Store) :
             totalSupply' = IF StillMounted(home) THEN s ELSE totalSupply
       \/ UNCHANGED totalSupply
    /\ home' = [home EXCEPT
                  !.inFlight = @ - 1,
                  !.supplyLoading = IF StillMounted(home) THEN FALSE ELSE @]
    /\ UNCHANGED <<walletAddress, file, preview, mintState, runs>>
    /\ UNCHANGED <<chainVars, userMint, signing, gallery, conversion, deploy, clicked>>

\* the cleanup of the effect: mounted = false, clearInterval(id)
PageUnmounts ==
    /\ home # Null
    /\ home.mounted
    /\ home' = [home EXCEPT !.mounted = FALSE, !.interval = FALSE]
    /\ UNCHANGED <<chainVars, formVars, userMint, signing, gallery, conversion, deploy, clicked>>

NextPoll == PageMounts \/ IntervalFires \/ RefreshCompletes \/ PageUnmounts \/ OthersMint

SpecPoll == Init /\ [][NextPoll]_vars

\* ------------------------------------------------------- satToBTC, btcToSat

\* a string is the sequence of its characters
DigitChars == <<"0", "1", "2", "3", "4", "5", "6", "7", "8", "9">>
DigitValue(c) == CHOOSE d \in 0..9 : DigitChars[d + 1] = c

\* bigint.toString()
RECURSIVE BigIntToString(_)
BigIntToString(n) ==
    IF n < 10 THEN <<DigitChars[n + 1]>>
    ELSE BigIntToString(n \div 10) \o <<DigitChars[(n % 10) + 1]>>

\* BigInt(string): the empty string is 0n
RECURSIVE ParseBigInt(_)
ParseBigInt(str) ==
    IF str = <<>> THEN 0
    ELSE ParseBigInt(SubSeq(str, 1, Len(str) - 1)) * 10 + DigitValue(str[Len(str)])

\* a padStart that pads nothing
PadStartNothing(str, n, c) == str

\* String.prototype.padStart, padEnd, slice(0, n), split
PadStart(str, n, c) ==
    IF Len(str) >= n THEN str ELSE [k \in 1..(n - Len(str)) |-> c] \o str
PadEnd(str, n, c) ==
    IF Len(str) >= n THEN str ELSE str \o [k \in 1..(n - Len(str)) |-> c]
SliceFromStart(str, n) == SubSeq(str, 1, IF Len(str) < n THEN Len(str) ELSE n)
RECURSIVE Split(_, _)
Split(str, sep) ==
    IF \A k \in DOMAIN str : str[k] # sep THEN <<str>>
    ELSE LET i == CHOOSE k \in DOMAIN str :
                      str[k] = sep /\ \A j \in 1..(k - 1) : str[j] # sep
         IN <<SubSeq(str, 1, i - 1)>> \o Split(SubSeq(str, i + 1, Len(str)), sep)

SATS_PER_BTC == 100000000

satToBTC(sat) ==
    IF sat = 0 THEN <<"0", ".", "0", "0", "0", "0", "0", "0", "0", "0">>
    ELSE LET whole == sat \div SATS_PER_BTC
             frac == sat % SATS_PER_BTC
         IN BigIntToString(whole) \o <<".">> \o PadStart(BigIntToString(frac), 8, "0")

btcToSat(btc) ==
    LET parts == Split(btc, ".")
        whole == parts[1]
        frac == IF Len(parts) >= 2 THEN parts[2] ELSE <<>>
        fracPadded == SliceFromStart(PadEnd(frac, 8, "0"), 8)
    IN ParseBigInt(whole) * SATS_PER_BTC + ParseBigInt(fracPadded)

\* the amounts converted: 0, the mint price, and one, nine and twenty-one
\* units of every decimal place up to whole bitcoins, each also one satoshi
\* above
RECURSIVE Pow10(_)
Pow10(k) == IF k = 0 THEN 1 ELSE 10 * Pow10(k - 1)
Amounts ==
    {0, MINT_PRICE} \cup
    {a * Pow10(k) + b : a \in {1, 9, 21}, k \in 0..8, b \in {0, 1}}

\* satToBTC(sat) is computed
SatToBTCApplied ==
    \E sat \in Amounts :
        /\ conversion = Null
        /\ conversion' = [sat |-> sat, btc |-> satToBTC(sat), back |-> Null]
        /\ UNCHANGED <<chainVars, formVars, userMint, home, signing, gallery, deploy, clicked>>

\* btcToSat is computed on the string satToBTC gave
BtcToSatApplied ==
    /\ conversion # Null
    /\ conversion.back = Null
    /\ conversion' = [conversion EXCEPT !.back = <<btcToSat(conversion.btc)>>]
    /\ UNCHANGED <<chainVars, formVars, userMint, home, signing, gallery, deploy, clicked>>

NextConvert == SatToBTCApplied \/ BtcToSatApplied

SpecConvert == Init /\ [][NextConvert]_vars

\* ------------------------------------------------------- deployment script

\* what provider.sendRawTransaction can resolve to: nothing, or a result whose
\* error, result and txid are each absent or present; an error can be empty
BroadcastResults ==
    {Null} \cup
    {<<r>> : r \in [error : {Null, <<"">>, <<"bad-txns">>},
                    result : {Null, <<"txid-r">>},
                    txid : {Null, <<"txid-t">>}]}

\* a test that overlooks the error of a result
BroadcastFailedOnlyMissing(result) == result = Null

\* !result || result.error
BroadcastFailed(result) ==
    \/ result = Null
    \/ result[1].error \notin {Null, <<"">>}

\* result.result ?? result.txid
TxIdOf(result) == IF result[1].result # Null THEN result[1].result ELSE result[1].txid

\* factory.signDeployment resolves; the funding transaction is handed to the
\* node
DeploymentSigned ==
    \E contractAddress \in {"bcrt1pcontract-a", "bcrt1pcontract-b"} :
        /\ deploy = Null
        /\ deploy' = [at |-> "funding", contractAddress |-> contractAddress,
                      broadcasts |-> <<"funding">>,
                      fundingResult |-> Null, revealResult |-> Null,
                      printed |-> <<>>, exit |-> Null]
        /\ UNCHANGED <<chainVars, formVars, userMint, home, signing, gallery, conversion, clicked>>

\* await provider.sendRawTransaction(deployment.transaction[0]) settles: an
\* uncaught rejection ends the process with status 1
FundingSettles ==
    /\ deploy # Null
    /\ deploy.at = "funding"
    /\ \/ deploy' = [deploy EXCEPT !.at = "exited", !.exit = <<1>>]
       \/ \E fundingResult \in BroadcastResults :
              deploy' =
                  IF BroadcastFailed(fundingResult)
                  THEN [deploy EXCEPT
                          !.at = "exited", !.fundingResult = <<fundingResult>>,
                          !.printed = Append(@, <<"Funding TX failed">>),
                          !.exit = <<1>>]
                  ELSE [deploy EXCEPT
                          !.at = "reveal", !.fundingResult = <<fundingResult>>,
                          !.printed = Append(@, <<"Funding TX ID", TxIdOf(fundingResult)>>),
                          !.broadcasts = Append(@, "reveal")]
    /\ UNCHANGED <<chainVars, formVars, userMint, home, signing, gallery, conversion, clicked>>

\* await provider.sendRawTransaction(deployment.transaction[1]) settles
RevealSettles ==
    /\ deploy # Null
    /\ deploy.at = "reveal"
    /\ \/ deploy' = [deploy EXCEPT !.at = "exited", !.exit = <<1>>]
       \/ \E revealResult \in BroadcastResults :
              deploy' =
                  IF BroadcastFailed(revealResult)
                  THEN [deploy EXCEPT
                          !.at = "exited", !.revealResult = <<revealResult>>,
                          !.printed = Append(@, <<"Reveal TX failed">>),
                          !.exit = <<1>>]
                  ELSE [deploy EXCEPT
                          !.at = "exited", !.revealResult = <<revealResult>>,
                          !.printed = @ \o <<<<"Reveal TX ID", TxIdOf(revealResult)>>,
                                             <<"Deployment complete", deploy.contractAddress>>>>,
                          !.exit = <<0>>]
    /\ UNCHANGED <<chainVars, formVars, userMint, home, signing, gallery, conversion, clicked>>

NextDeploy == DeploymentSigned \/ FundingSettles \/ RevealSettles

SpecDeploy == Init /\ [][NextDeploy]_vars

\* ------------------------------------------------------------- fetchGallery

\* the counts asked for (the gallery asks for 20) and the supplies read
GalleryCounts == {1, 2, 3, 20}
GallerySupplies == {0, 1, 2, 3, 4, 19, 20, 21, MAX_SUPPLY}

\* a lower end that is one id too low
GalleryFromOneLower(supply, count) == IF supply > count THEN supply - count ELSE 1

\* const from = supply > BigInt(count) ? supply - BigInt(count) + 1n : 1n
GalleryFrom(supply, count) == IF supply > count THEN supply - count + 1 ELSE 1

\* for (let id = supply; id >= from; id--) ids.push(id)
RECURSIVE GalleryIds(_, _, _)
GalleryIds(id, from, ids) ==
    IF id >= from THEN GalleryIds(id - 1, from, Append(ids, id)) ELSE ids

\* the tokens that fail to load: none, any one of them, or all of them
TokenFailures(ids) ==
    {{}} \cup {{ids[k]} : k \in DOMAIN ids} \cup {{ids[k] : k \in DOMAIN ids}}

\* tokens.filter((t) => t !== null)
RECURSIVE FilterLoaded(_)
FilterLoaded(tokens) ==
    IF tokens = <<>> THEN <<>>
    ELSE IF Head(tokens) = Null THEN FilterLoaded(Tail(tokens))
    ELSE <<Head(tokens)>> \o FilterLoaded(Tail(tokens))

\* fetchGallery(count) is called
FetchGalleryCalled ==
    \E count \in GalleryCounts :
        /\ gallery = Null
        /\ gallery' = [at |-> "supply", count |-> count, supply |-> Null,
                       requested |-> <<>>, returned |-> Null]
        /\ UNCHANGED <<chainVars, formVars, userMint, home, signing, conversion, deploy, clicked>>

\* await fetchTotalSupply() settles: an empty list for supply 0, else one
\* fetchToken per id is started
GallerySupplyArrives ==
    \E supply \in GallerySupplies :
        /\ gallery # Null
        /\ gallery.at = "supply"
        /\ gallery' =
              IF supply = 0
              THEN [gallery EXCEPT !.at = "done", !.supply = <<supply>>, !.returned = <<>>]
              ELSE [gallery EXCEPT
                      !.at = "tokens", !.supply = <<supply>>,
                      !.requested = GalleryIds(supply, GalleryFrom(supply, gallery.count), <<>>)]
        /\ UNCHANGED <<chainVars, formVars, userMint, home, signing, conversion, deploy, clicked>>

\* await Promise.all(ids.map(fetchToken)) settles: a token or null per id, in
\* the order of the ids; the nulls are filtered out
GalleryTokensArrive ==
    /\ gallery # Null
    /\ gallery.at = "tokens"
    /\ \E failed \in TokenFailures(gallery.requested) :
          LET tokens == [k \in DOMAIN gallery.requested |->
                           IF gallery.requested[k] \in failed THEN Null
                           ELSE <<gallery.requested[k]>>]
          IN gallery' = [gallery EXCEPT
                           !.at = "done",
                           !.returned = [k \in DOMAIN FilterLoaded(tokens) |->
                                           [tokenId |-> FilterLoaded(tokens)[k][1]]]]
    /\ UNCHANGED <<chainVars, formVars, userMint, home, signing, conversion, deploy, clicked>>

NextGallery == FetchGalleryCalled \/ GallerySupplyArrives \/ GalleryTokensArrive

SpecGallery == Init /\ [][NextGallery]_vars

\* ---------------------------------------------------------------- mintToken

\* what contract.mint(tokenURI) can resolve to: nothing at all, or a result
\* whose error, revert, calldata and tokenId are each absent (Null) or present;
\* an error can be present and empty
CallResults ==
    {Null} \cup
    {<<r>> : r \in [error : {Null, <<"">>, <<"rpc error">>},
                    revert : {Null, <<SupplyExceeded>>},
                    calldata : {Null, <<"calldata">>},
                    tokenId : {Null, <<1>>}]}

\* Buffer.toString('hex')
Hex(bytes) == <<"hex", bytes>>

\* the checks without the one for a reverted call
CallFailureIgnoringRevert(callResult) ==
    IF callResult = Null THEN "Contract call failed"
    ELSE LET r == callResult[1]
         IN IF r.error # Null /\ r.error # <<"">> THEN r.error[1]
            ELSE IF r.calldata = Null
                 THEN "Contract did not return calldata for signing"
                 ELSE ""

\* the checks of mintToken on the call result: the message of the Error it
\* throws, or "" when the wallet is to be asked
CallFailure(callResult) ==
    IF callResult = Null THEN "Contract call failed"
    ELSE LET r == callResult[1]
         IN IF r.error # Null /\ r.error # <<"">> THEN r.error[1]
            ELSE IF r.revert # Null THEN "Contract reverted: " \o r.revert[1]
            ELSE IF r.calldata = Null
                 THEN "Contract did not return calldata for signing"
                 ELSE ""

\* mintToken rejects
Rejected(message) == [status |-> "rejected", message |-> message]

\* mintToken(params) is called
MintTokenCalled ==
    \E uri \in URIs :
        /\ signing = Null
        /\ signing' = [at |-> "call", uri |-> uri, callResult |-> Null,
                       wallet |-> <<>>, signed |-> Null, outcome |-> Null]
        /\ UNCHANGED <<chainVars, formVars, userMint, home, gallery, conversion, deploy, clicked>>

\* await contract.mint(params.tokenURI) settles; on a usable result the sign
\* callback is invoked with the calldata in hex
MintCallReturns ==
    /\ signing # Null
    /\ signing.at = "call"
    /\ \/ signing' = [signing EXCEPT !.at = "done", !.outcome = Rejected("RPC unreachable")]
       \/ \E callResult \in CallResults :
              signing' =
                  IF CallFailure(callResult) # ""
                  THEN [signing EXCEPT !.at = "done", !.callResult = <<callResult>>,
                                       !.outcome = Rejected(CallFailure(callResult))]
                  ELSE [signing EXCEPT
                           !.at = "sign", !.callResult = <<callResult>>,
                           !.wallet = Append(@, [fn |-> "sign",
                                                 arg |-> Hex(callResult[1].calldata[1])])]
    /\ UNCHANGED <<chainVars, formVars, userMint, home, gallery, conversion, deploy, clicked>>

\* await params.walletSignFn(...) settles; when it resolves the broadcast
\* callback is invoked with what it resolved to
WalletSigns ==
    /\ signing # Null
    /\ signing.at = "sign"
    /\ \/ signing' = [signing EXCEPT !.at = "done",
                                      !.outcome = Rejected("User rejected the request")]
       \/ \E signedPsbt \in {"signed-a", "signed-b"} :
              signing' = [signing EXCEPT
                            !.at = "broadcast", !.signed = <<signedPsbt>>,
                            !.wallet = Append(@, [fn |-> "broadcast", arg |-> signedPsbt])]
    /\ UNCHANGED <<chainVars, formVars, userMint, home, gallery, conversion, deploy, clicked>>

\* await params.walletBroadcastFn(signedPsbt) settles; mintToken returns the
\* tokenId of the call result (0 when it has none) and the transaction hash
WalletBroadcasts ==
    /\ signing # Null
    /\ signing.at = "broadcast"
    /\ \/ signing' = [signing EXCEPT !.at = "done", !.outcome = Rejected("Broadcast failed")]
       \/ \E txHash \in {"tx-a", "tx-b"} :
              LET id == signing.callResult[1][1].tokenId
              IN signing' = [signing EXCEPT
                               !.at = "done",
                               !.outcome = [status |-> "resolved",
                                            tokenId |-> IF id = Null THEN 0 ELSE id[1],
                                            txHash |-> txHash]]
    /\ UNCHANGED <<chainVars, formVars, userMint, home, gallery, conversion, deploy, clicked>>

NextSign == MintTokenCalled \/ MintCallReturns \/ WalletSigns \/ WalletBroadcasts

SpecSign == Init /\ [][NextSign]_vars

\* ------------------------------------------------------------------ claims

\* the ids whose owner lookup succeeds
ExistingIds == {id \in TokenIds : _exists(Store, id)}

\* the step executes a mint call
MintStep == call'.op = "mint"

\* C1: after exactly N successful mint calls, with failed calls interleaved
\* anywhere, SupplyCounter = N and NextTokenId = N + 1, for N from 0 to 100.
C1_CountersFollowMints ==
    /\ mintCount \in 0..100
    /\ _totalSupply = mintCount
    /\ _nextTokenId = mintCount + 1

\* all 100 mints succeeded and a further call failed afterwards
C1_Witness ==
    /\ mintCount = 100
    /\ _nextTokenId = 101
    /\ call.op = "mint"
    /\ ret.error # NoError

\* C2: in every reachable state the number of minted tokens never exceeds 100.
C2_SupplyNeverExceedsCap ==
    /\ _totalSupply <= 100
    /\ Cardinality(ExistingIds) <= 100

\* the cap is reached: 100 tokens exist, the last mint succeeded
C2_Witness ==
    /\ Cardinality(ExistingIds) = 100
    /\ call.op = "mint"
    /\ ret.error = NoError

\* C3: a mint call made when SupplyCounter = 100 fails with SupplyExceeded,
\* with or without a qualifying payment, and SupplyCounter is still 100.
C3_MintAtCapFails ==
    [][(MintStep /\ _totalSupply = 100)
         => (ret'.error = SupplyExceeded /\ _totalSupply' = 100)]_vars

\* a mint with a qualifying payment was refused at the cap
C3_Witness ==
    /\ _totalSupply = 100
    /\ call.op = "mint"
    /\ call.outputs = PaidOutputs
    /\ ret.error = SupplyExceeded

\* C4: with supply available, a mint call whose outputs contain no output to
\* the treasury address, or only outputs to it below 500,000, fails with
\* PaymentNotFound.
C4_NoPaymentFails ==
    [][(/\ MintStep
        /\ _totalSupply < 100
        /\ \A i \in DOMAIN call'.outputs :
              call'.outputs[i].to = <<TREASURY>> => call'.outputs[i].value < 500000)
         => ret'.error = PaymentNotFound]_vars

\* a mint with two outputs, one of them to the treasury one satoshi short,
\* was refused while supply was available
C4_Witness ==
    /\ _totalSupply < 100
    /\ call.op = "mint"
    /\ Len(call.outputs) = 2
    /\ \E i \in DOMAIN call.outputs :
          call.outputs[i] = [to |-> <<TREASURY>>, value |-> 499999]
    /\ ret.error = PaymentNotFound

\* C5: with supply available, a mint call with an output to the treasury
\* address of exactly 500,000 succeeds: the threshold is inclusive and the
\* address match exact.
C5_ExactPaymentSucceeds ==
    [][(/\ MintStep
        /\ _totalSupply < 100
        /\ \E i \in DOMAIN call'.outputs :
              call'.outputs[i] = [to |-> <<TREASURY>>, value |-> 500000])
         => (/\ ret'.error = NoError
             /\ ret'.value = _nextTokenId
             /\ _totalSupply' = _totalSupply + 1)]_vars

\* a mint succeeded on an exact payment that the scan met second, after an
\* output of the same value to the near-miss address
C5_Witness ==
    /\ call.op = "mint"
    /\ ret.error = NoError
    /\ call.outputs = <<[to |-> <<OTHER_ADDRESS>>, value |-> 500000],
                        [to |-> <<TREASURY>>, value |-> 500000]>>

\* C6: a mint call that fails leaves SupplyCounter, NextTokenId, owners,
\* URIs, MinterOf and MintedAt as they were, and emits no event.
C6_FailedMintChangesNothing ==
    [][(MintStep /\ ret'.error # NoError)
         => (UNCHANGED ledger /\ events' = <<>>)]_vars

\* a mint failed for lack of payment on a ledger that already holds tokens
C6_Witness ==
    /\ _totalSupply >= 1
    /\ _totalSupply < 100
    /\ call.op = "mint"
    /\ ret.error = PaymentNotFound

\* C7: for the id returned by a successful mint, minterOf(id) returns the
\* address of the caller of that mint and mintedAt(id) the block height in
\* effect during it.
C7_ProvenanceOfMint ==
    (call.op = "mint" /\ ret.error = NoError)
        => /\ minterOf(Store, ret.value).error = NoError
           /\ AddressFromU256(minterOf(Store, ret.value).value) = call.sender
           /\ mintedAt(Store, ret.value).error = NoError
           /\ mintedAt(Store, ret.value).value = block

\* the first caller minted token 2 at block 2, after the second caller had
\* minted token 1 at block 1
C7_Witness ==
    /\ call.op = "mint"
    /\ ret.error = NoError
    /\ ret.value = 2
    /\ call.sender = Alice
    /\ block = 2
    /\ AddressFromU256(minterOf(Store, 1).value) = Bob
    /\ mintedAt(Store, 1).value = 1

\* C8: once a token id is minted, MinterOf[id] and MintedAt[id] never change:
\* not by later mints, successful or failed, and not by transfers of the
\* token; minterOf(id) keeps reporting the original minter.  (A step that
\* writes none of the three maps satisfies it outright.)
C8_ProvenanceImmutable ==
    [][\/ UNCHANGED <<_owner, _minterOf, _mintedAt>>
       \/ \A id \in TokenIds :
             _exists(Store, id)
                 => /\ _exists(Store', id)
                    /\ minterOf(Store', id).value = minterOf(Store, id).value
                    /\ mintedAt(Store', id).value = mintedAt(Store, id).value
                    /\ MapGet(_minterOf', id) = MapGet(_minterOf, id)
                    /\ MapGet(_mintedAt', id) = MapGet(_mintedAt, id)]_vars

\* token 1 was minted by the second caller at block 1, now belongs to the
\* first caller, and more tokens were minted at a later block
C8_Witness ==
    /\ _totalSupply >= 2
    /\ block = 2
    /\ OwnerGet(Store, 1) = Alice
    /\ MapGet(_mintedAt, 2) = 2
    /\ AddressFromU256(minterOf(Store, 1).value) = Bob
    /\ mintedAt(Store, 1).value = 1

\* C9: minterOf(id) and mintedAt(id) fail with TokenNotFound for every id
\* never minted, including 0 and every id above the supply, and succeed for
\* every id in 1..SupplyCounter.
C9_ReadsRequireExistence ==
    \A id \in TokenIds :
        IF id \in 1.._totalSupply
        THEN /\ minterOf(Store, id).error = NoError
             /\ mintedAt(Store, id).error = NoError
        ELSE /\ minterOf(Store, id).error = TokenNotFound(id)
             /\ mintedAt(Store, id).error = TokenNotFound(id)

\* with tokens minted, a read of the id just above the supply was refused
C9_Witness ==
    /\ _totalSupply >= 1
    /\ call.op = "mintedAt"
    /\ call.tokenId = _totalSupply + 1
    /\ ret.error = TokenNotFound(_totalSupply + 1)

\* C10: token ids are unique, dense and assigned in order from 1: the set of
\* existing ids is exactly 1..SupplyCounter and the k-th successful mint
\* returns k.
C10_IdsDenseFromOne ==
    /\ ExistingIds = 1.._totalSupply
    /\ (call.op = "mint" /\ ret.error = NoError) => ret.value = mintCount

\* the hundredth successful mint returned 100
C10_Witness ==
    /\ call.op = "mint"
    /\ ret.error = NoError
    /\ ret.value = 100
    /\ ExistingIds = 1..100

\* C11: a successful mint(tokenURI) returns the value NextTokenId had before
\* the call, makes the caller the owner of that id and stores the supplied
\* tokenURI against it; the first successful mint after deployment returns 1.
C11_MintReturnsAndStores ==
    [][(MintStep /\ ret'.error = NoError)
         => (/\ ret'.value = _nextTokenId
             /\ OwnerGet(Store', ret'.value) = call'.sender
             /\ MapGet(_tokenURI', ret'.value) = call'.uri
             /\ (mintCount = 0 => ret'.value = 1))]_vars

\* the first mint after deployment, by the second caller with the second URI
C11_Witness ==
    /\ call.op = "mint"
    /\ ret.error = NoError
    /\ ret.value = 1
    /\ call.sender = Bob
    /\ call.uri = "ipfs://b"
    /\ MapGet(_tokenURI, 1) = "ipfs://b"
    /\ OwnerGet(Store, 1) = Bob

\* C12: every successful mint emits exactly one Transfer event, from the zero
\* address to the caller with the assigned id, and mint emits no other event;
\* a failed mint emits none; over any sequence of calls the number of mint
\* Transfer events emitted equals SupplyCounter.
C12_OneTransferPerMint ==
    /\ (call.op = "mint" /\ ret.error = NoError)
          => events = <<TransferEvent(ZeroAddress, call.sender, ret.value)>>
    /\ (call.op = "mint" /\ ret.error # NoError) => events = <<>>
    /\ mintTransfers = _totalSupply

\* the hundredth mint announced token 100; a transfer of token 1 between the
\* callers has left the count of mint events at the supply
C12_Witness ==
    /\ call.op = "mint"
    /\ ret.error = NoError
    /\ events = <<TransferEvent(ZeroAddress, Alice, 100)>>
    /\ mintTransfers = 100
    /\ OwnerGet(Store, 1) # AddressFromU256(MapGet(_minterOf, 1))

\* a key of a stored map has an entry when it reads as something other than
\* the map's default
HasOwner(s, id) == OwnerGet(s, id) # ZeroAddress
HasMinterOf(s, id) == MapGet(s.minterOf, id) # 0
HasMintedAt(s, id) == MapGet(s.mintedAt, id) # 0
HasTokenURI(s, id) == MapGet(s.tokenURI, id) # ""

\* the four per-token entries of an id are all present or all absent
EntriesTogether(s) ==
    \A id \in TokenIds :
        /\ HasOwner(s, id) <=> HasMinterOf(s, id)
        /\ HasOwner(s, id) <=> HasMintedAt(s, id)
        /\ HasOwner(s, id) <=> HasTokenURI(s, id)

\* C13: the token record, MinterOf and MintedAt entries are created together
\* and never deleted: an id has an owner if and only if it has MinterOf and
\* MintedAt entries (and a stored URI), and an id that exists in one state
\* exists in every later state.
C13_EntriesTogetherForever ==
    /\ []EntriesTogether(Store)
    /\ [][\/ UNCHANGED _owner
          \/ \A id \in TokenIds : _exists(Store, id) => _exists(Store', id)]_vars

\* token 1 still has all four entries after 99 further mints and a transfer,
\* and the id above the cap has none
C13_Witness ==
    /\ _totalSupply = 100
    /\ HasOwner(Store, 1) /\ HasMinterOf(Store, 1)
    /\ HasMintedAt(Store, 1) /\ HasTokenURI(Store, 1)
    /\ OwnerGet(Store, 1) # AddressFromU256(MapGet(_minterOf, 1))
    /\ ~HasOwner(Store, 101) /\ ~HasMinterOf(Store, 101)
    /\ ~HasMintedAt(Store, 101) /\ ~HasTokenURI(Store, 101)

\* the outputs in another order: position i holds the output that was at p[i]
PermuteOutputs(outputs, p) == [i \in DOMAIN outputs |-> outputs[p[i]]]

\* C14 (SpecPay): the payment check is order-independent and permissive: the
\* outcome of the call is the outcome of the check on every permutation of its
\* output list, and one output to the treasury of at least the price makes the
\* call succeed wherever it stands, whatever the other outputs are and however
\* much it overpays.
C14_PaymentOrderIndependent ==
    call.op = "mint" =>
        /\ \A p \in Permutations(DOMAIN call.outputs) :
               _requireTreasuryPayment(PermuteOutputs(call.outputs, p)) = ret.error
        /\ (\E i \in DOMAIN call.outputs :
               /\ call.outputs[i].to = <<TREASURY>>
               /\ call.outputs[i].value >= 500000)
             => ret.error = NoError

\* a mint succeeded on an overpaying treasury output in last position, behind
\* an output that pays somebody else
C14_Witness ==
    /\ call.op = "mint"
    /\ ret.error = NoError
    /\ Len(call.outputs) = 2
    /\ call.outputs[1] = [to |-> <<OTHER_ADDRESS>>, value |-> MINT_PRICE + 1]
    /\ call.outputs[2] = [to |-> <<TREASURY>>, value |-> MINT_PRICE + 1]

\* C15 (SpecPay): the payment check does not sum outputs: when every output to
\* the treasury is below 500,000 the mint fails with PaymentNotFound even if
\* those outputs add up to 500,000 or more, and an output of 500,000 or more
\* to any other address, the null destination included, never satisfies it.
C15_PaymentNotSummed ==
    (/\ call.op = "mint"
     /\ \A i \in DOMAIN call.outputs :
            call.outputs[i].to = <<TREASURY>> => call.outputs[i].value < 500000)
      => /\ ret.error = PaymentNotFound
         /\ _totalSupply = 0

\* a mint failed although its two treasury outputs add up to almost twice the
\* price
C15_Witness ==
    /\ call.op = "mint"
    /\ ret.error = PaymentNotFound
    /\ Len(call.outputs) = 2
    /\ \A i \in {1, 2} : call.outputs[i] = [to |-> <<TREASURY>>, value |-> MINT_PRICE - 1]
    /\ TreasuryReceived(call.outputs, 1) >= MINT_PRICE

\* what the treasury has received from successful mints in SpecPay, where at
\* most one mint succeeds and no call follows it
MintProceeds ==
    IF call.op = "mint" /\ ret.error = NoError
    THEN TreasuryReceived(call.outputs, 1) ELSE 0

C18_ConstantReads ==
    /\ mintPrice(Store) = Return(Store, <<>>, 500000)
    /\ treasury(Store).error = NoError
    /\ treasury(Store).store = Store
    /\ treasury(Store).value.byteLength = 64
    /\ treasury(Store).value.bytes
          = "bcrt1pzcu0e6e04uc5l43fvrr2czh2fxh5my8c08ggnywghw3hchznqdcsr9x2s9"
    /\ call.op = "mintPrice" => ret = [error |-> NoError, value |-> 500000]
    /\ call.op = "treasury"
          => ret = [error |-> NoError, value |-> EncodeString(TREASURY)]

\* the second caller reads the price once the collection is sold out
C18_Witness ==
    /\ call.op = "mintPrice"
    /\ call.sender = Bob
    /\ _totalSupply = 100
    /\ ret.value = 500000

\* the text that can stand before or after a part of a revert message
MessageAffixes ==
    LET head == "OPFace: no output found sending "
        middle == " sat to treasury. Include an output to "
        tail == " with at least 0.005 tBTC."
        address == "bcrt1pzcu0e6e04uc5l43fvrr2czh2fxh5my8c08ggnywghw3hchznqdcsr9x2s9"
    IN {head, head \o "500000" \o middle, middle \o address \o tail, tail}

\* msg contains part, between one of the texts above on either side
Includes(msg, part) ==
    \E before, after \in MessageAffixes : msg = before \o part \o after

\* C20: whenever mint fails for want of a payment (a failed mint below the
\* cap), the abort message includes both the required amount, 500000, and the
\* exact treasury address string.
C20_PaymentMessageTellsHow ==
    (call.op = "mint" /\ ret.error # NoError /\ _totalSupply < 100)
      => /\ Includes(ret.error, "500000")
         /\ Includes(ret.error,
                     "bcrt1pzcu0e6e04uc5l43fvrr2czh2fxh5my8c08ggnywghw3hchznqdcsr9x2s9")

\* a mint that sent the treasury one satoshi too little was told what to send
C20_Witness ==
    /\ call.op = "mint"
    /\ call.outputs = <<[to |-> <<TREASURY>>, value |-> MINT_PRICE - 1]>>
    /\ ret.error = PaymentNotFound
    /\ Includes(ret.error, ToString(MINT_PRICE))
    /\ Includes(ret.error, TREASURY)

\* the statements of mint that read or write the contract's storage
EffectStatements ==
    {"readTokenId", "_mint", "_setTokenURI", "setMinterOf", "setMintedAt",
     "advanceNextTokenId"}

\* the supply check and then the payment check are the first two statements
\* completed
BothChecked(trace) ==
    /\ Len(trace) >= 2
    /\ trace[1] = "checkSupply"
    /\ trace[2] = "checkPayment"

\* a stepped mint that has ended left what the call as a whole leaves
StepsAgreeWithCall ==
    (pc = 0 /\ frame # NoFrame)
      => mint(frame.saved, frame.sender, frame.outputs, block, frame.uri)
           = [error |-> ret.error, store |-> Store, events |-> events,
              value |-> ret.value]

\* C16 (SpecSteps): within one mint call the token id is read, _mint runs, the
\* URI, MinterOf and MintedAt are written and NextTokenId is advanced only
\* after the supply check and the payment check have passed, the payment check
\* runs only after the supply check has passed, and no step changes the
\* storage before both have passed.
C16_ChecksBeforeEffects ==
    /\ []StepsAgreeWithCall
    /\ [][pc > 0 =>
            /\ MintProgram[pc] \in EffectStatements => BothChecked(frame.trace)
            /\ MintProgram[pc] = "checkPayment" => frame.trace = <<"checkSupply">>
            /\ ~BothChecked(frame.trace) => UNCHANGED ledger]_vars

\* the hundredth mint ran all nine statements in source order
C16_Witness ==
    /\ pc = 0
    /\ frame.trace = MintProgram
    /\ ret = [error |-> NoError, value |-> 100]
    /\ frame.tokenId = 100

\* the statuses one run has set, in the order of the flow
RunInOrder(sets) ==
    \A k \in DOMAIN sets :
        /\ sets[k] \in {"uploading", "signing", "broadcasting", "success", "error"}
        /\ sets[k] = "uploading" => k = 1
        /\ sets[k] = "signing" => (k > 1 /\ sets[k - 1] = "uploading")
        /\ sets[k] = "broadcasting" => (k > 1 /\ sets[k - 1] = "signing")
        /\ sets[k] = "success" => (k > 1 /\ sets[k - 1] = "broadcasting")
        /\ sets[k] \in {"success", "error"} => k = Len(sets)

\* the run has ended exactly when the last status it set is success or error
RunEndsSettled(run) ==
    run.at = "done" <=> run.sets[Len(run.sets)] \in {"success", "error"}

\* every run of handleMint started so far has ended
NoRunInFlight == \A i \in DOMAIN runs : runs[i].at = "done"

C21_NextTokenIdNeverWraps ==
    /\ [](_nextTokenId >= 1 /\ _nextTokenId <= 101)
    /\ [][_nextTokenId' >= _nextTokenId]_vars

\* the counter stands at 101 after the last mint and a later read left it there
C21_Witness ==
    /\ _nextTokenId = 101
    /\ _totalSupply = 100
    /\ call.op = "mintedAt"
    /\ call.tokenId = 100
    /\ ret.error = NoError

\* the runs of handleMint that have not ended
RunsInFlight == {i \in DOMAIN runs : runs[i].at # "done"}

\* C22 (SpecForm): at most one mint flow is in flight at any time, and while
\* a run is uploading, signing or broadcasting no user action starts a second
\* run or puts the status back to idle: the status shown stays the busy step
\* of the run in flight until that run has ended.
C22_OneFlowInFlight ==
    /\ Cardinality(RunsInFlight) <= 1
    /\ RunsInFlight # {} => isBusy

\* C23 (SpecRace): the token id the frontend commits to before the
\* transaction executes equals the id the contract assigns: the 'Token ID' in
\* the uploaded metadata and the tokenId reported on success both equal the
\* id the mint transaction is given when it executes, whatever mints of other
\* users come in between.
C23_CommittedIdIsAssignedId ==
    (userMint # Null /\ userMint.at = "executed")
      => /\ userMint.metadataId = userMint.assignedId
         /\ userMint.reportedId = userMint.assignedId

\* the callbacks of the wallet invoked so far, by name
WalletCalls(fn) == {k \in DOMAIN signing.wallet : signing.wallet[k].fn = fn}

\* the contract call came back without error, without revert and with calldata
CallUsable(callResult) ==
    /\ callResult # Null
    /\ callResult[1].error \in {Null, <<"">>}
    /\ callResult[1].revert = Null
    /\ callResult[1].calldata # Null

\* C24 (SpecSign): in mintToken the wallet is asked to sign only after the
\* contract call returned without error, without revert and with calldata; the
\* broadcast callback is invoked only after the sign callback resolved, and
\* with exactly the value it resolved to; if the call errors or reverts, or
\* signing fails, nothing is broadcast and mintToken rejects.
C24_SignThenBroadcast ==
    signing # Null =>
        /\ WalletCalls("sign") # {}
              => (signing.callResult # Null /\ CallUsable(signing.callResult[1]))
        /\ \A k \in WalletCalls("broadcast") :
              /\ signing.signed # Null
              /\ signing.wallet[k].arg = signing.signed[1]
              /\ k = 2 /\ signing.wallet[1].fn = "sign"
        /\ (/\ signing.at = "done"
            /\ \/ signing.callResult = Null
               \/ ~CallUsable(signing.callResult[1])
               \/ signing.signed = Null)
              => /\ WalletCalls("broadcast") = {}
                 /\ signing.outcome.status = "rejected"

\* a call result carrying an empty error went through: signed, and what was
\* signed was broadcast; mintToken resolved with the id of the call result
C24_Witness ==
    /\ signing # Null
    /\ signing.at = "done"
    /\ signing.callResult # Null
    /\ signing.callResult[1] # Null
    /\ signing.callResult[1][1].error = <<"">>
    /\ signing.wallet = <<[fn |-> "sign", arg |-> Hex("calldata")],
                          [fn |-> "broadcast", arg |-> "signed-b"]>>
    /\ signing.outcome = [status |-> "resolved", tokenId |-> 1, txHash |-> "tx-a"]

\* C25 (SpecPage): once the page has shown the collection as sold out
\* (totalSupply >= 100, minting disabled), no later poll result makes the
\* displayed supply drop below 100 or enables minting again.
C25_SoldOutStable == [][isSoldOut => isSoldOut']_vars

\* the message of the first check of handleMint that fails, "" when none does
CheckThatFails(provider) ==
    CASE walletAddress = Null -> "Please connect your wallet first."
      [] walletAddress # Null /\ file = Null -> "Please select an image first."
      [] walletAddress # Null /\ file # Null /\ isSoldOut
            -> "All 100 OP Face NFTs have been minted."
      [] walletAddress # Null /\ file # Null /\ ~isSoldOut /\ provider = Null
            -> "OP_WALLET not found."
      [] OTHER -> ""

\* C26 (SpecGuard): handleMint starts no upload and no contract call unless a
\* wallet address is set, a file is selected, the collection is not sold out
\* and a wallet provider is present; when one of the checks fails the status
\* becomes error with the message of that check and the selected file and the
\* preview stay as they were.
C26_GuardsBeforeUpload ==
    [][clicked' # clicked =>
         LET failed == CheckThatFails(clicked'.provider)
         IN /\ runs' # runs
                 => /\ walletAddress # Null /\ file # Null
                    /\ totalSupply < 100
                    /\ clicked'.provider # Null
            /\ failed # ""
                 => /\ mintState' = [step |-> "error", error |-> failed]
                    /\ runs' = runs
                    /\ file' = file /\ preview' = preview]_vars

\* handleMint was called with wallet, file and provider in place on a sold-out
\* collection: refused with the sold-out message, the file still selected
C26_Witness ==
    /\ clicked # Null
    /\ ~clicked.started
    /\ clicked.provider # Null
    /\ walletAddress # Null /\ file # Null /\ preview # Null
    /\ isSoldOut
    /\ mintState = [step |-> "error", error |-> "All 100 OP Face NFTs have been minted."]
    /\ runs = <<>>

Min(a, b) == IF a < b THEN a ELSE b
Max(a, b) == IF a > b THEN a ELSE b

\* C27 (SpecGallery): for on-chain supply S, fetchGallery(count) requests
\* exactly the ids S, S-1, ..., max(1, S-count+1) in descending order:
\* min(S, count) ids, never id 0 and never an id above S; it returns an empty
\* list when S = 0; and the list it returns keeps the descending order.
C27_LatestTokensDescending ==
    (gallery # Null /\ gallery.supply # Null) =>
        LET S == gallery.supply[1]
            ids == gallery.requested
        IN /\ Len(ids) = Min(S, gallery.count)
           /\ \A k \in DOMAIN ids : ids[k] = S - k + 1 /\ ids[k] >= 1 /\ ids[k] <= S
           /\ ids # <<>> => ids[Len(ids)] = Max(1, S - gallery.count + 1)
           /\ S = 0 => gallery.at = "done" /\ gallery.returned = <<>>
           /\ gallery.at = "done" =>
                 /\ \A k \in DOMAIN gallery.returned :
                       \E j \in DOMAIN ids : gallery.returned[k].tokenId = ids[j]
                 /\ \A j, k \in DOMAIN gallery.returned :
                       j < k => gallery.returned[j].tokenId > gallery.returned[k].tokenId

\* the gallery's own call on a sold-out collection, one token failing to
\* load: ids 100 down to 81 requested, the other 19 returned
C27_Witness ==
    /\ gallery # Null
    /\ gallery.at = "done"
    /\ gallery.count = 20
    /\ gallery.supply = <<MAX_SUPPLY>>
    /\ Len(gallery.requested) = 20
    /\ gallery.requested[1] = 100 /\ gallery.requested[20] = 81
    /\ Len(gallery.returned) = 19
    /\ gallery.returned[1].tokenId = 100 /\ gallery.returned[19].tokenId = 82

\* the cleanup of the polling effect has run
Unmounted == home # Null /\ ~home.mounted

\* C28 (SpecPoll): once the cleanup of the polling effect has run, the
\* interval is cleared (no further refresh begins) and a refresh that was
\* already in flight sets neither totalSupply nor supplyLoading when it
\* completes.
C28_NoUpdateAfterUnmount ==
    /\ [](Unmounted => ~home.interval)
    /\ [][Unmounted => /\ totalSupply' = totalSupply
                       /\ home'.supplyLoading = home.supplyLoading
                       /\ home'.inFlight <= home.inFlight]_vars

\* the page was unmounted with refreshes in flight and all of them have
\* completed since: the chain has tokens, the page still shows its first
\* state
C28_Witness ==
    /\ Unmounted
    /\ home.inFlight = 0
    /\ home.supplyLoading
    /\ totalSupply = 0
    /\ _totalSupply > 0

\* the positions of the decimal point in a string
PointsIn(str) == {k \in DOMAIN str : str[k] = "."}

\* C29 (SpecConvert): for every non-negative satoshi amount s,
\* btcToSat(satToBTC(s)) = s, and satToBTC yields a string with exactly 8
\* fractional digits.
C29_RoundTrip ==
    conversion # Null =>
        /\ Cardinality(PointsIn(conversion.btc)) = 1
        /\ \A p \in PointsIn(conversion.btc) :
              /\ p > 1
              /\ Len(conversion.btc) - p = 8
              /\ \A k \in DOMAIN conversion.btc :
                    k # p => \E d \in 0..9 : conversion.btc[k] = DigitChars[d + 1]
        /\ conversion.back # Null => conversion.back[1] = conversion.sat

\* the mint price went through both conversions: "0.00500000" and back
C29_Witness ==
    /\ conversion # Null
    /\ conversion.sat = MINT_PRICE
    /\ conversion.btc = <<"0", ".", "0", "0", "5", "0", "0", "0", "0", "0">>
    /\ conversion.back = <<MINT_PRICE>>

\* a broadcast came back with a result and without an error
BroadcastSucceeded(settled) ==
    /\ settled # Null
    /\ settled[1] # Null
    /\ settled[1][1].error \in {Null, <<"">>}

\* the lines printed that announce the completed deployment
CompleteLines == {k \in DOMAIN deploy.printed : deploy.printed[k][1] = "Deployment complete"}

\* C30 (SpecDeploy): the deployment script broadcasts the reveal transaction
\* only after the funding transaction was broadcast successfully; if the
\* funding broadcast returns no result or an error the script exits with
\* status 1 without broadcasting the reveal; 'Deployment complete' with the
\* contract address is printed only after both broadcasts succeeded.
C30_RevealAfterFunding ==
    deploy # Null =>
        /\ (\E k \in DOMAIN deploy.broadcasts : deploy.broadcasts[k] = "reveal")
              => /\ deploy.broadcasts = <<"funding", "reveal">>
                 /\ BroadcastSucceeded(deploy.fundingResult)
        /\ (deploy.at # "funding" /\ ~BroadcastSucceeded(deploy.fundingResult))
              => /\ deploy.exit = <<1>>
                 /\ deploy.broadcasts = <<"funding">>
        /\ \A k \in CompleteLines :
              /\ deploy.printed[k][2] = deploy.contractAddress
              /\ deploy.broadcasts = <<"funding", "reveal">>
              /\ BroadcastSucceeded(deploy.fundingResult)
              /\ BroadcastSucceeded(deploy.revealResult)

\* both broadcasts came back with a transaction id, the funding one under
\* `txid` and with an empty error: the deployment is announced as complete
C30_Witness ==
    /\ deploy # Null
    /\ deploy.exit = <<0>>
    /\ deploy.broadcasts = <<"funding", "reveal">>
    /\ deploy.printed = <<<<"Funding TX ID", <<"txid-t">>>>,
                          <<"Reveal TX ID", <<"txid-r">>>>,
                          <<"Deployment complete", "bcrt1pcontract-a">>>>
    /\ deploy.fundingResult[1][1].error = <<"">>

====
